---- MODULE Spec2Model ----
(***************************************************************************)
(* Model of the three backfill scripts of the repository:                  *)
(*   backfill_job_assignments.py          (psycopg2, one transaction)      *)
(*   backfill_checklist_from_transactions.py  (REST, module-level script)  *)
(*   scripts/backfill-workflow-task-items.py  (REST, main/backfill_job)    *)
(* The database is the environment: its answers to the statements the      *)
(* scripts issue are chosen nondeterministically at each step.             *)
(***************************************************************************)
EXTENDS Bags, FiniteSets, Integers, Sequences, TLC

\* ---------------------------------------------------------------- bounds
MaxJobs == 2
NumRuns == 2
MaxTx == 2
MaxRuns == 2
MaxWtJobs == 2
MaxFaults == 1

\* ------------------------------------------------------------- variables
VARIABLES
    script,             \* which script this behaviour runs: "ja", "cl", "wt", "mig" or "seed"
    faults,             \* how many statements and requests the store has failed so far
    \* ---- database, job-assignments backfill
    jobs,               \* rows of jobs with assigned_to IS NOT NULL, ORDER BY created_at
    tenants,            \* ids present in table tenants
    unique_ja,          \* whether job_assignments has a uniqueness constraint on the natural key
    job_assignments,    \* committed rows of job_assignments (a bag)
    \* ---- per invocation of backfill_job_assignments.main
    pc,                 \* position of the invocation
    idx,                \* 1-based position of `job` in the for loop
    inserted_count,
    skipped_count,
    txn,                \* rows inserted by the open transaction, not yet committed
    log,                \* the per-job lines the invocation printed
    tableAtStart,       \* job_assignments as it was committed when the invocation connected
    afterCommitted      \* whether it connected after another invocation had committed,
                        \* with no other invocation under way

VARIABLES
    \* ---- database, checklist-from-transactions backfill
    transactions,       \* check_out rows of item_transactions of the job, order created_at.asc
    job_checklist_items,\* rows of job_checklist_items (a bag)
    \* ---- the run of backfill_checklist_from_transactions
    cl_pc,
    cl_run,             \* how many times the script has been started
    cl_status,          \* response.status_code of the GET
    items_to_add,       \* the dict, as the sequence of its values in insertion order
    cl_pos,             \* position of the for loop in items_to_add
    sequence,
    cl_log              \* one line per POST of the run: "created" or "error"

VARIABLES
    \* ---- database, workflow-task-items backfill
    wt_jobs,            \* rows of jobs with checklist_items not null
    workflow_tasks,     \* rows of workflow_tasks (ids are unique)
    associations,       \* rows of workflow_task_item_associations (a bag)
    \* ---- the run of backfill-workflow-task-items main
    wt_pc,
    wt_run,             \* how many times the script has been started
    dry_run,            \* args.dry_run
    wt_status,          \* response.status_code of the GET over jobs
    wt_j,               \* position of `job` in main's for loop
    wt_e,               \* position of `checklist_item` in backfill_job's for loop
    task_id,
    items_map,          \* the keys of items_map
    created,
    errors,
    total_created,
    total_errors,
    total_skipped,
    response,           \* the response of the POST of this iteration, if it made one
    tasks_added,        \* how many rows the run has added to workflow_tasks
    prev_clean,         \* the previous run was no dry run and ended with Errors: 0
    prev_dry_created    \* 'Associations created' of the previous run if it was a
                        \* completed dry run, -1 otherwise

VARIABLES
    \* ---- database, apply_migration_direct
    migrated,           \* whether the statements of the migration are committed
    \* ---- the run of apply_migration_direct
    mg_pc,
    conn,               \* the name conn: "unbound", "open" or "closed"
    mg_txn,             \* whether the open transaction holds the executed migration
    mg_v,               \* position in the verification queries that follow the commit
    mg_e                \* the call that raised the psycopg2.Error, "none" if none did

VARIABLES
    \* ---- database, seed-demo
    customers_table,    \* ids of the rows of customers of the demo tenant
    jobs_table,         \* how many rows of jobs the script has created
    \* ---- the run of seed-demo
    sd_pc,
    sd_run,             \* how many times the script has been started
    customers,          \* response.json() of the GET, at most one id (limit 1)
    customer_id,        \* "unbound" until the script assigns it
    job_posts,          \* how many POSTs to /rest/v1/jobs the run has sent
    sd_created          \* how many rows of customers the script has created

mgvars == <<migrated, mg_pc, conn, mg_txn, mg_v, mg_e>>

sdvars == <<customers_table, jobs_table, sd_pc, sd_run, customers, customer_id,
            job_posts, sd_created>>

clvars == <<transactions, job_checklist_items, cl_pc, cl_run, cl_status, items_to_add,
            cl_pos, sequence, cl_log>>

wtvars == <<wt_jobs, workflow_tasks, associations, wt_pc, wt_run, dry_run, wt_status,
            wt_j, wt_e, task_id, items_map, created, errors, total_created,
            total_errors, total_skipped, response, tasks_added, prev_clean,
            prev_dry_created>>

javars == <<jobs, tenants, unique_ja, job_assignments, pc, idx, inserted_count,
            skipped_count, txn, log, tableAtStart, afterCommitted>>

vars == <<script, faults, javars, clvars, wtvars, mgvars, sdvars>>

RunIds == 1..NumRuns

\* ------------------------------------------------------------ input sets
TenantIds == {"t1", "t9"}
ExistingTenants == {"t1"}
UserIds == {"u1"}
JobIds == <<"j1", "j2", "j3", "j4">>

RECURSIVE SeqsUpTo(_, _)
SeqsUpTo(S, n) ==
    IF n = 0 THEN {<<>>}
    ELSE LET shorter == SeqsUpTo(S, n - 1)
         IN shorter \cup {Append(s, x) : s \in {t \in shorter : Len(t) = n - 1}, x \in S}

\* the result sets the SELECT over jobs can return: distinct ids, in created_at order
JobLists ==
    {[k \in 1..Len(ts) |-> [id |-> JobIds[k], tenant_id |-> ts[k], assigned_to |-> "u1"]] :
        ts \in SeqsUpTo(TenantIds, MaxJobs)}

\* the store fails a statement or request: at most MaxFaults times in a behaviour
Failing(n) == /\ faults + n <= MaxFaults
              /\ faults' = faults + n

\* ============================================================ job assignments

\* the row of the INSERT statement
AssignmentRow(job) ==
    [tenant_id |-> job.tenant_id, job_id |-> job.id,
     user_id |-> job.assigned_to, assigned_by |-> job.assigned_to]

NaturalKey(row) == <<row.tenant_id, row.job_id, row.user_id>>

\* rows a statement of invocation r sees under READ COMMITTED
Visible(r) == job_assignments (+) txn[r]

KeyCount(bag, key) ==
    LET rows == {row \in BagToSet(bag) : NaturalKey(row) = key}
        RECURSIVE Sum(_)
        Sum(S) == IF S = {} THEN 0
                  ELSE LET x == CHOOSE y \in S : TRUE IN CopiesIn(x, bag) + Sum(S \ {x})
    IN Sum(rows)

\* the probe restricted to the rows of the open transaction
AssignmentExists_OwnRowsOnly(r, job) ==
    \E row \in BagToSet(txn[r]) :
        /\ row.job_id = job.id
        /\ row.user_id = job.assigned_to
        /\ row.tenant_id = job.tenant_id

\* SELECT id FROM job_assignments WHERE job_id = .. AND user_id = .. AND tenant_id = ..
AssignmentExists(r, job) ==
    \E row \in BagToSet(Visible(r)) :
        /\ row.job_id = job.id
        /\ row.user_id = job.assigned_to
        /\ row.tenant_id = job.tenant_id

\* the tenant lookup answering for any non-null tenant_id
TenantExists_NoLookup(job) == job.tenant_id \in TenantIds

\* SELECT id FROM tenants WHERE id = ..
TenantExists(job) == job.tenant_id \in tenants

Line(job, outcome, error) == [job |-> job.id, outcome |-> outcome, error |-> error]

JAInit ==
    /\ jobs \in JobLists
    /\ tenants = ExistingTenants
    /\ unique_ja \in BOOLEAN
    /\ job_assignments = EmptyBag
    /\ pc = [r \in RunIds |-> "init"]
    /\ idx = [r \in RunIds |-> 1]
    /\ inserted_count = [r \in RunIds |-> 0]
    /\ skipped_count = [r \in RunIds |-> 0]
    /\ txn = [r \in RunIds |-> EmptyBag]
    /\ log = [r \in RunIds |-> <<>>]
    /\ tableAtStart = [r \in RunIds |-> EmptyBag]
    /\ afterCommitted = [r \in RunIds |-> FALSE]

JAIdle ==
    /\ jobs = <<>>
    /\ tenants = ExistingTenants
    /\ unique_ja = TRUE
    /\ job_assignments = EmptyBag
    /\ pc = [r \in RunIds |-> "off"]
    /\ idx = [r \in RunIds |-> 1]
    /\ inserted_count = [r \in RunIds |-> 0]
    /\ skipped_count = [r \in RunIds |-> 0]
    /\ txn = [r \in RunIds |-> EmptyBag]
    /\ log = [r \in RunIds |-> <<>>]
    /\ tableAtStart = [r \in RunIds |-> EmptyBag]
    /\ afterCommitted = [r \in RunIds |-> FALSE]

\* connect and the SELECT over jobs; a failure of either propagates out of main
JAFetch(r) ==
    /\ script = "ja"
    /\ pc[r] = "init"
    /\ tableAtStart' = [tableAtStart EXCEPT ![r] = job_assignments]
    /\ afterCommitted' = [afterCommitted EXCEPT ![r] =
            /\ \E q \in RunIds \ {r} : pc[q] = "done"
            /\ \A q \in RunIds \ {r} : pc[q] \in {"init", "done", "nojobs", "raised", "stopped"}]
    /\ \E ok \in BOOLEAN :
        /\ Failing(IF ok THEN 0 ELSE 1)
        /\ pc' = [pc EXCEPT ![r] = IF ~ok THEN "raised"
                                   ELSE IF Len(jobs) = 0 THEN "nojobs"
                                   ELSE "probe"]
    /\ UNCHANGED <<script, mgvars, sdvars, clvars, wtvars, jobs, tenants, unique_ja, job_assignments, idx,
                   inserted_count, skipped_count, txn, log>>

\* `break` in place of `continue`
NextPc_Break(r) == "commit"

\* `continue`: next job, or leave the loop
NextPc(r) == IF idx[r] < Len(jobs) THEN "probe" ELSE "commit"

\* the existence probe of one job and the `SKIP ... already has assignment` branch
JAProbe(r) ==
    /\ script = "ja"
    /\ pc[r] = "probe"
    /\ LET job == jobs[idx[r]] IN
        IF AssignmentExists(r, job)
        THEN /\ skipped_count' = [skipped_count EXCEPT ![r] = @ + 1]
             /\ log' = [log EXCEPT ![r] = Append(@, Line(job, "skip_exists", ""))]
             /\ idx' = [idx EXCEPT ![r] = @ + 1]
             /\ pc' = [pc EXCEPT ![r] = NextPc(r)]
        ELSE /\ pc' = [pc EXCEPT ![r] = "tenant"]
             /\ UNCHANGED <<skipped_count, log, idx>>
    /\ UNCHANGED <<script, mgvars, sdvars, faults, clvars, wtvars, jobs, tenants, unique_ja, job_assignments,
                   inserted_count, txn, tableAtStart, afterCommitted>>

\* the tenant lookup of one job and the `SKIP ... invalid tenant_id` branch
JATenant(r) ==
    /\ script = "ja"
    /\ pc[r] = "tenant"
    /\ LET job == jobs[idx[r]] IN
        IF ~TenantExists(job)
        THEN /\ skipped_count' = [skipped_count EXCEPT ![r] = @ + 1]
             /\ log' = [log EXCEPT ![r] = Append(@, Line(job, "skip_tenant", ""))]
             /\ idx' = [idx EXCEPT ![r] = @ + 1]
             /\ pc' = [pc EXCEPT ![r] = NextPc(r)]
        ELSE /\ pc' = [pc EXCEPT ![r] = "insert"]
             /\ UNCHANGED <<skipped_count, log, idx>>
    /\ UNCHANGED <<script, mgvars, sdvars, faults, clvars, wtvars, jobs, tenants, unique_ja, job_assignments,
                   inserted_count, txn, tableAtStart, afterCommitted>>

\* an INSERT of a key another open transaction has inserted waits for that transaction
InsertBlocked(r, row) ==
    /\ unique_ja
    /\ \E q \in RunIds \ {r} : KeyCount(txn[q], NaturalKey(row)) > 0

\* the answers the database can give to the INSERT
InsertOutcomes(r, row) ==
    IF unique_ja /\ KeyCount(Visible(r), NaturalKey(row)) > 0
    THEN {"unique_violation"}
    ELSE {"created", "rejected"}

\* inserted_count += 1 placed before the statement that may raise
JAExcept_CountsInserted(r, job, e) ==
    /\ log' = [log EXCEPT ![r] = Append(@, Line(job, "failed", e))]
    /\ txn' = [txn EXCEPT ![r] = EmptyBag]
    /\ inserted_count' = [inserted_count EXCEPT ![r] = @ + 1]

\* `except Exception as e`: print, conn.rollback(), continue
JAExcept(r, job, e) ==
    /\ log' = [log EXCEPT ![r] = Append(@, Line(job, "failed", e))]
    /\ txn' = [txn EXCEPT ![r] = EmptyBag]
    /\ UNCHANGED inserted_count

\* the INSERT of one job, with the handler of the exception it may raise
JAInsert(r) ==
    /\ script = "ja"
    /\ pc[r] = "insert"
    /\ LET job == jobs[idx[r]]
           row == AssignmentRow(job)
       IN /\ ~InsertBlocked(r, row)
          /\ \E o \in InsertOutcomes(r, row) :
                /\ Failing(IF o = "rejected" THEN 1 ELSE 0)
                /\ IF o = "created"
                   THEN /\ txn' = [txn EXCEPT ![r] = @ (+) SetToBag({row})]
                        /\ inserted_count' = [inserted_count EXCEPT ![r] = @ + 1]
                        /\ log' = [log EXCEPT ![r] = Append(@, Line(job, "created", ""))]
                   ELSE JAExcept(r, job, o)
    /\ idx' = [idx EXCEPT ![r] = @ + 1]
    /\ pc' = [pc EXCEPT ![r] = NextPc(r)]
    /\ UNCHANGED <<script, mgvars, sdvars, clvars, wtvars, jobs, tenants, unique_ja, job_assignments,
                   skipped_count, tableAtStart, afterCommitted>>

\* the commit replaces the table by the rows of the transaction
JACommit_Overwrite(r) ==
    /\ script = "ja"
    /\ pc[r] = "commit"
    /\ job_assignments' = txn[r]
    /\ txn' = [txn EXCEPT ![r] = EmptyBag]
    /\ pc' = [pc EXCEPT ![r] = "done"]
    /\ UNCHANGED <<script, mgvars, sdvars, faults, clvars, wtvars, jobs, tenants, unique_ja, idx, inserted_count,
                   skipped_count, log, tableAtStart, afterCommitted>>

\* conn.commit() after the loop, then the summary
JACommit(r) ==
    /\ script = "ja"
    /\ pc[r] = "commit"
    /\ job_assignments' = job_assignments (+) txn[r]
    /\ txn' = [txn EXCEPT ![r] = EmptyBag]
    /\ pc' = [pc EXCEPT ![r] = "done"]
    /\ UNCHANGED <<script, mgvars, sdvars, faults, clvars, wtvars, jobs, tenants, unique_ja, idx, inserted_count,
                   skipped_count, log, tableAtStart, afterCommitted>>

\* the run is interrupted at the head of the loop, after at least one job: the
\* interrupt is no Exception, so only `finally` runs, and conn.close() discards
\* the transaction, which was never committed
JAStop(r) ==
    /\ script = "ja"
    /\ pc[r] = "probe"
    /\ idx[r] > 1
    /\ txn' = [txn EXCEPT ![r] = EmptyBag]
    /\ pc' = [pc EXCEPT ![r] = "stopped"]
    /\ UNCHANGED <<script, mgvars, sdvars, faults, clvars, wtvars, jobs, tenants, unique_ja, job_assignments,
                   idx, inserted_count, skipped_count, log, tableAtStart, afterCommitted>>

JANext == \E r \in RunIds :
    JAFetch(r) \/ JAProbe(r) \/ JATenant(r) \/ JAInsert(r) \/ JACommit(r) \/ JAStop(r)

\* ====================================================== REST status codes
StatusOk == 200
StatusCreated == 201

\* the status codes the gateway answers a GET and a POST with
GetStatuses == {StatusOk, 500}
PostStatuses == {StatusCreated, 400}

\* a status the scripts take for a failure costs the store one fault
Cost(status) == IF status \in {StatusOk, StatusCreated} THEN 0 ELSE 1

\* the guard left out
FetchOk_Unchecked(status_code) == TRUE

\* `response.status_code != 200` guards every GET of source rows
FetchOk(status_code) == status_code = StatusOk

\* `response.status_code in [200, 201]` guards every POST
InsertOk(status_code) == status_code \in {StatusOk, StatusCreated}

\* =================================================== checklist from transactions
job_id == "job-5714"

\* the tenant of the job, assigned at the top of the script and not used after
tenant_id == "tenant-demo"

ItemIds == {"i1", "i2"}

\* quantities are numeric: they are counted in halves, so 1 is 0.5 and 2 is 1.0
Quantities == {1, 2}

\* int(x) of a non-negative number of halves: the whole part
int(halves) == halves \div 2

\* the embedded items(name,item_type,category) of a transaction
ItemInfo(item) == [name |-> <<"name", item>>, item_type |-> "equipment", category |-> "tools"]

\* JSON null, what PostgREST embeds as `items` when the item row is not there
None == [none |-> TRUE]

\* a check_out transaction whose embedded item is null
TxWithoutItem == [item_id |-> "i2", quantity |-> 2, items |-> None]

Transactions ==
    SeqsUpTo({[item_id |-> i, quantity |-> q, items |-> ItemInfo(i)] :
                 i \in ItemIds, q \in Quantities} \cup {TxWithoutItem}, MaxTx)

\* the grouping loop raises: item_info['name'] is evaluated for the first
\* transaction of each item_id, and None cannot be subscripted
RECURSIVE GroupingRaises(_, _)
GroupingRaises(txs, keys) ==
    IF txs = <<>> THEN FALSE
    ELSE LET tx == Head(txs)
         IN IF tx.item_id \notin keys /\ tx.items = None THEN TRUE
            ELSE GroupingRaises(Tail(txs), keys \cup {tx.item_id})

\* position of item in the dict, 0 when it is no key of it
KeyPos(dict, item) ==
    LET at == {k \in 1..Len(dict) : dict[k].item_id = item}
    IN IF at = {} THEN 0 ELSE CHOOSE k \in at : TRUE

\* items_to_add[item_id]['total_quantity'] += quantity
AddQuantity(total_quantity, quantity) == total_quantity + quantity

\* the grouping loop: a new key is appended with total_quantity 0, then the
\* quantity of the transaction is added to the entry of its key
RECURSIVE GroupByItem(_, _)
GroupByItem(txs, dict) ==
    IF txs = <<>> THEN dict
    ELSE LET tx == Head(txs)
             withKey == IF KeyPos(dict, tx.item_id) = 0
                        THEN Append(dict, [item_id |-> tx.item_id,
                                           name |-> tx.items.name,
                                           item_type |-> tx.items.item_type,
                                           category |-> tx.items.category,
                                           total_quantity |-> 0])
                        ELSE dict
             at == KeyPos(withKey, tx.item_id)
         IN GroupByItem(Tail(txs),
                [withKey EXCEPT ![at].total_quantity = AddQuantity(@, tx.quantity)])

\* the JSON body of the POST
ChecklistItem(item_data, seq) ==
    [job_id |-> job_id,
     sequence_number |-> seq,
     item_type |-> item_data.item_type,
     item_id |-> item_data.item_id,
     item_name |-> item_data.name,
     quantity |-> int(item_data.total_quantity),
     status |-> "pending"]

CLInit ==
    /\ transactions \in Transactions
    /\ job_checklist_items = EmptyBag
    /\ cl_run = 1
    /\ cl_pc = "start"
    /\ cl_status = 0
    /\ items_to_add = <<>>
    /\ cl_pos = 1
    /\ sequence = 1
    /\ cl_log = <<>>

CLIdle ==
    /\ transactions = <<>>
    /\ job_checklist_items = EmptyBag
    /\ cl_run = 0
    /\ cl_pc = "off"
    /\ cl_status = 0
    /\ items_to_add = <<>>
    /\ cl_pos = 1
    /\ sequence = 1
    /\ cl_log = <<>>

\* the GET of the transactions, exit(1) on a status other than 200, the grouping
CLFetch ==
    /\ script = "cl"
    /\ cl_pc = "start"
    /\ \E status \in GetStatuses :
        /\ Failing(Cost(status))
        /\ cl_status' = status
        /\ IF FetchOk(status) /\ GroupingRaises(transactions, {})
           THEN /\ items_to_add' = items_to_add
                /\ cl_pc' = "raised"
           ELSE IF FetchOk(status)
           THEN /\ items_to_add' = GroupByItem(transactions, <<>>)
                /\ cl_pc' = "loop"
           ELSE /\ items_to_add' = items_to_add
                /\ cl_pc' = "exit1"
    /\ UNCHANGED <<script, mgvars, sdvars, javars, wtvars, transactions, job_checklist_items, cl_run,
                   cl_pos, sequence, cl_log>>

\* sequence += 1 inside the success branch
CLPost_AdvanceOnCreate ==
    /\ script = "cl"
    /\ cl_pc = "loop"
    /\ cl_pos <= Len(items_to_add)
    /\ \E status \in PostStatuses :
        /\ Failing(Cost(status))
        /\ IF InsertOk(status)
           THEN /\ job_checklist_items' = job_checklist_items (+)
                       SetToBag({ChecklistItem(items_to_add[cl_pos], sequence)})
                /\ cl_log' = Append(cl_log, "created")
                /\ sequence' = sequence + 1
           ELSE /\ job_checklist_items' = job_checklist_items
                /\ cl_log' = Append(cl_log, "error")
                /\ sequence' = sequence
    /\ cl_pos' = cl_pos + 1
    /\ UNCHANGED <<script, mgvars, sdvars, javars, wtvars, transactions, cl_pc, cl_run, cl_status,
                   items_to_add>>

\* one iteration of the creation loop: no existence probe, the POST, the
\* printed outcome, sequence += 1.  No constraint of job_checklist_items is
\* known: the store may accept or reject any row.
CLPost ==
    /\ script = "cl"
    /\ cl_pc = "loop"
    /\ cl_pos <= Len(items_to_add)
    /\ \E status \in PostStatuses :
        /\ Failing(Cost(status))
        /\ IF InsertOk(status)
           THEN /\ job_checklist_items' = job_checklist_items (+)
                       SetToBag({ChecklistItem(items_to_add[cl_pos], sequence)})
                /\ cl_log' = Append(cl_log, "created")
           ELSE /\ job_checklist_items' = job_checklist_items
                /\ cl_log' = Append(cl_log, "error")
    /\ sequence' = sequence + 1
    /\ cl_pos' = cl_pos + 1
    /\ UNCHANGED <<script, mgvars, sdvars, javars, wtvars, transactions, cl_pc, cl_run, cl_status,
                   items_to_add>>

\* the loop is exhausted: "Backfill complete!"
CLFinish ==
    /\ script = "cl"
    /\ cl_pc = "loop"
    /\ cl_pos > Len(items_to_add)
    /\ cl_pc' = "done"
    /\ UNCHANGED <<script, mgvars, sdvars, faults, javars, wtvars, transactions, job_checklist_items, cl_run,
                   cl_status, items_to_add, cl_pos, sequence, cl_log>>

\* the script is started again
CLRerun ==
    /\ script = "cl"
    /\ cl_pc \in {"done", "exit1", "raised"}
    /\ cl_run < MaxRuns
    /\ cl_run' = cl_run + 1
    /\ cl_pc' = "start"
    /\ cl_status' = 0
    /\ items_to_add' = <<>>
    /\ cl_pos' = 1
    /\ sequence' = 1
    /\ cl_log' = <<>>
    /\ UNCHANGED <<script, mgvars, sdvars, faults, javars, wtvars, transactions, job_checklist_items>>

CLNext == CLFetch \/ CLPost \/ CLFinish \/ CLRerun

\* ======================================================== workflow task items
DefaultLimit == 100

\* rows of table items
ItemsTable == {"i1", "i2"}

\* dict.get(key, default)
Get(dict, key, default) == IF key \in DOMAIN dict THEN dict[key] ELSE default

\* entries of jobs.checklist_items: JSON objects, any key may be absent
EntryLoaded == [id |-> "i1", loaded |-> TRUE, quantity |-> 2]
EntryPending == [id |-> "i2", loaded |-> FALSE]
EntryGone == [id |-> "i9", loaded |-> TRUE]
EntryNoId == [loaded |-> TRUE]
EntryVerified == [id |-> "i2", loaded |-> TRUE, verified |-> TRUE]
EntryMissing == [id |-> "i1", loaded |-> FALSE, missing |-> TRUE]

Checklists ==
    { <<>>,
      <<EntryLoaded, EntryLoaded>>,
      <<EntryNoId, EntryGone, EntryPending>>,
      <<EntryVerified, EntryMissing>> }

WtJobLists ==
    {[k \in 1..Len(cs) |-> [id |-> JobIds[k], title |-> <<"title", JobIds[k]>>,
                            tenant_id |-> "t1", checklist_items |-> cs[k]]] :
        cs \in SeqsUpTo(Checklists, MaxWtJobs)}

\* a task some other process created for the first job
EarlierTask == [id |-> 1, job_id |-> "j1", tenant_id |-> "t1", auto |-> FALSE]

Min(a, b) == IF a < b THEN a ELSE b

\* the rows the GET over jobs returns with limit={limit}
FetchedJobs == SubSeq(wt_jobs, 1, Min(DefaultLimit, Len(wt_jobs)))

\* str.lower() on the words of a response text
Lower(word) ==
    CASE word = "Key" -> "key"
      [] word = "Duplicate" -> "duplicate"
      [] word = "Unique" -> "unique"
      [] OTHER -> word

Contains(text, word) == \E k \in 1..Len(text) : Lower(text[k]) = word

\* the test for "conflict" in place of the two words of the message
IsDuplicate_ByReason(text) == Contains(text, "conflict")

\* `"duplicate" in response.text.lower() or "unique" in response.text.lower()`
IsDuplicate(text) == Contains(text, "duplicate") \/ Contains(text, "unique")

CreatedResponse == [status_code |-> StatusCreated, text |-> <<"id">>]
ConflictResponse ==
    [status_code |-> 409,
     text |-> <<"23505", "Key", "already", "exists", "duplicate", "key", "value",
                "violates", "unique", "constraint">>]
RejectedResponse ==
    [status_code |-> 400, text |-> <<"22P02", "invalid", "input", "syntax">>]
NoResponse == [status_code |-> 0, text |-> <<>>]

\* the natural key of an association
AssocKey(row) == <<row.workflow_task_id, row.item_id>>

\* the answers the store can give to the POST of an association
StoreAnswers(row) ==
    IF \E old \in BagToSet(associations) : AssocKey(old) = AssocKey(row)
    THEN {ConflictResponse}
    ELSE {CreatedResponse, RejectedResponse}

\* the loaded flag alone decides
StatusOf_LoadedOnly(checklist_item) ==
    IF Get(checklist_item, "loaded", FALSE) THEN "loaded" ELSE "pending"

\* `status` of an association, from the flags of the checklist entry
StatusOf(checklist_item) ==
    LET s1 == IF Get(checklist_item, "loaded", FALSE) THEN "loaded" ELSE "pending"
        s2 == IF Get(checklist_item, "verified", FALSE) THEN "verified" ELSE s1
    IN IF Get(checklist_item, "missing", FALSE) THEN "missing" ELSE s2

Association(tenant, task, checklist_item) ==
    [tenant_id |-> tenant,
     workflow_task_id |-> task,
     item_id |-> Get(checklist_item, "id", ""),
     quantity |-> Get(checklist_item, "quantity", 1),
     is_required |-> TRUE,
     status |-> StatusOf(checklist_item)]

\* the JSON body of the POST of a default task
DefaultTask(id, job) ==
    [id |-> id, job_id |-> job.id, tenant_id |-> job.tenant_id, auto |-> TRUE]

WTInit ==
    /\ wt_jobs \in WtJobLists
    /\ workflow_tasks \in {{}, {EarlierTask}}
    /\ associations = EmptyBag
    /\ wt_pc = "start"
    /\ wt_run = 1
    /\ dry_run \in BOOLEAN
    /\ wt_status = 0
    /\ wt_j = 1
    /\ wt_e = 1
    /\ task_id = 0
    /\ items_map = {}
    /\ created = 0
    /\ errors = 0
    /\ total_created = 0
    /\ total_errors = 0
    /\ total_skipped = 0
    /\ response = NoResponse
    /\ tasks_added = 0
    /\ prev_clean = FALSE
    /\ prev_dry_created = -1

WTIdle ==
    /\ wt_jobs = <<>>
    /\ workflow_tasks = {}
    /\ associations = EmptyBag
    /\ wt_pc = "off"
    /\ wt_run = 0
    /\ dry_run = FALSE
    /\ wt_status = 0
    /\ wt_j = 1
    /\ wt_e = 1
    /\ task_id = 0
    /\ items_map = {}
    /\ created = 0
    /\ errors = 0
    /\ total_created = 0
    /\ total_errors = 0
    /\ total_skipped = 0
    /\ response = NoResponse
    /\ tasks_added = 0
    /\ prev_clean = FALSE
    /\ prev_dry_created = -1

\* fetch_jobs_with_checklist_items, and main's exit when there is no job
WTFetch ==
    /\ script = "wt"
    /\ wt_pc = "start"
    /\ \E status \in GetStatuses :
        /\ Failing(Cost(status))
        /\ wt_status' = status
        /\ wt_pc' = IF ~FetchOk(status) THEN "exit1"
                    ELSE IF FetchedJobs = <<>> THEN "exit0"
                    ELSE "job"
    /\ UNCHANGED <<script, mgvars, sdvars, javars, clvars, wt_jobs, workflow_tasks, associations, wt_run,
                   dry_run, wt_j, wt_e, task_id, items_map, created, errors,
                   total_created, total_errors, total_skipped, response,
                   tasks_added, prev_clean,
                   prev_dry_created>>

\* the store never answers the GET of the jobs: requests.get is called without
\* a timeout, so the call does not return
WTNoResponse ==
    /\ script = "wt"
    /\ wt_pc = "start"
    /\ Failing(1)
    /\ wt_pc' = "waiting"
    /\ UNCHANGED <<script, mgvars, sdvars, javars, clvars, wt_jobs, workflow_tasks, associations, wt_run,
                   dry_run, wt_status, wt_j, wt_e, task_id, items_map, created, errors,
                   total_created, total_errors, total_skipped, response,
                   tasks_added, prev_clean, prev_dry_created>>

\* backfill_job returned stats without entering its loop; main adds them up
WTReturnEarly(skipped, count) ==
    /\ total_skipped' = total_skipped + skipped
    /\ total_created' = total_created + count
    /\ wt_j' = wt_j + 1
    /\ UNCHANGED <<wt_pc, workflow_tasks, task_id, items_map, created, errors, wt_e,
                   total_errors, tasks_added>>

\* fetch_items_by_ids and the start of backfill_job's loop, with task id `task`
WTEnterLoop(task, tasks, checklist_items, items_status) ==
    LET item_ids == {Get(checklist_items[k], "id", "") : k \in 1..Len(checklist_items)} \ {""}
    IN /\ task_id' = task
       /\ workflow_tasks' = tasks
       /\ tasks_added' = tasks_added + Cardinality(tasks \ workflow_tasks)
       /\ items_map' = IF item_ids # {} /\ FetchOk(items_status)
                       THEN item_ids \cap ItemsTable
                       ELSE {}
       /\ created' = 0
       /\ errors' = 0
       /\ wt_e' = 1
       /\ wt_pc' = "entry"
       /\ UNCHANGED <<wt_j, total_created, total_errors, total_skipped>>

\* sys.exit(1) of get_or_create_default_task
WTExitOnTask ==
    /\ wt_pc' = "exit1"
    /\ UNCHANGED <<workflow_tasks, task_id, items_map, created, errors, wt_e, wt_j,
                   total_created, total_errors, total_skipped, tasks_added>>

\* the dry-run test placed after the writes it is meant to replace
JobBranch_NoDryRun(checklist_items, dry) ==
    IF checklist_items = <<>> THEN "skipped" ELSE "write"

\* the two early returns of backfill_job, in the order the code tests them
JobBranch(checklist_items, dry) ==
    IF checklist_items = <<>> THEN "skipped"
    ELSE IF dry THEN "dry_run"
    ELSE "write"

\* backfill_job up to its loop: the empty checklist, the dry run,
\* get_or_create_default_task and fetch_items_by_ids
WTJobStart ==
    /\ script = "wt"
    /\ wt_pc = "job"
    /\ wt_j <= Len(FetchedJobs)
    /\ LET job == FetchedJobs[wt_j]
           checklist_items == Get(job, "checklist_items", <<>>)
           existing == {t \in workflow_tasks : t.job_id = job.id}
           new_id == Cardinality(workflow_tasks) + 1
       IN IF JobBranch(checklist_items, dry_run) = "skipped"
          THEN WTReturnEarly(1, 0) /\ Failing(0)
          ELSE IF JobBranch(checklist_items, dry_run) = "dry_run"
          THEN WTReturnEarly(0, Len(checklist_items)) /\ Failing(0)
          ELSE \E lookup \in GetStatuses :
                 LET tasks == IF FetchOk(lookup) THEN existing ELSE {}
                 IN IF tasks # {}
                    THEN \E t \in tasks : \E items_status \in GetStatuses :
                            /\ Failing(Cost(lookup) + Cost(items_status))
                            /\ WTEnterLoop(t.id, workflow_tasks, checklist_items, items_status)
                    ELSE \E creation \in PostStatuses :
                            IF InsertOk(creation)
                            THEN \E items_status \in GetStatuses :
                                    /\ Failing(Cost(lookup) + Cost(items_status))
                                    /\ WTEnterLoop(new_id,
                                                   workflow_tasks \cup {DefaultTask(new_id, job)},
                                                   checklist_items, items_status)
                            ELSE /\ Failing(Cost(lookup) + Cost(creation))
                                 /\ WTExitOnTask
    /\ UNCHANGED <<script, mgvars, sdvars, javars, clvars, wt_jobs, associations, wt_run, dry_run,
                   wt_status, response, prev_clean,
                   prev_dry_created>>

\* the test against items_map left out
ItemKnown_Unchecked(item_id, map) == TRUE

\* `item_id not in items_map`, negated
ItemKnown(item_id, map) == item_id \in map

\* one iteration of backfill_job's loop over checklist_items
WTEntry ==
    /\ script = "wt"
    /\ wt_pc = "entry"
    /\ LET job == FetchedJobs[wt_j]
           checklist_items == Get(job, "checklist_items", <<>>)
       IN /\ wt_e <= Len(checklist_items)
          /\ LET checklist_item == checklist_items[wt_e]
                 item_id == Get(checklist_item, "id", "")
                 association == Association(job.tenant_id, task_id, checklist_item)
             IN IF item_id = ""
                THEN /\ response' = NoResponse
                     /\ UNCHANGED <<associations, created, errors, faults>>
                ELSE IF ~ItemKnown(item_id, items_map)
                THEN /\ errors' = errors + 1
                     /\ response' = NoResponse
                     /\ UNCHANGED <<associations, created, faults>>
                ELSE \E answer \in StoreAnswers(association) :
                        /\ Failing(IF answer = RejectedResponse THEN 1 ELSE 0)
                        /\ response' = answer
                        /\ IF InsertOk(answer.status_code)
                           THEN /\ associations' = associations (+) SetToBag({association})
                                /\ created' = created + 1
                                /\ errors' = errors
                           ELSE IF IsDuplicate(answer.text)
                           THEN UNCHANGED <<associations, created, errors>>
                           ELSE /\ errors' = errors + 1
                                /\ UNCHANGED <<associations, created>>
    /\ wt_e' = wt_e + 1
    /\ UNCHANGED <<script, mgvars, sdvars, javars, clvars, wt_jobs, workflow_tasks, wt_pc, wt_run, dry_run,
                   wt_status, wt_j, task_id, items_map, total_created, total_errors,
                   total_skipped, tasks_added, prev_clean,
                   prev_dry_created>>

\* backfill_job returns the stats of its loop; main adds them up
WTJobEnd ==
    /\ script = "wt"
    /\ wt_pc = "entry"
    /\ wt_e > Len(Get(FetchedJobs[wt_j], "checklist_items", <<>>))
    /\ total_created' = total_created + created
    /\ total_errors' = total_errors + errors
    /\ wt_j' = wt_j + 1
    /\ wt_pc' = "job"
    /\ wt_e' = 1
    /\ task_id' = 0
    /\ items_map' = {}
    /\ created' = 0
    /\ errors' = 0
    /\ response' = NoResponse
    /\ UNCHANGED <<script, mgvars, sdvars, faults, javars, clvars, wt_jobs, workflow_tasks, associations, wt_run,
                   dry_run, wt_status, total_skipped, tasks_added, prev_clean,
                   prev_dry_created>>

\* main's loop is exhausted: the summary
WTSummary ==
    /\ script = "wt"
    /\ wt_pc = "job"
    /\ wt_j > Len(FetchedJobs)
    /\ wt_pc' = "done"
    /\ UNCHANGED <<script, mgvars, sdvars, faults, javars, clvars, wt_jobs, workflow_tasks, associations, wt_run,
                   dry_run, wt_status, wt_j, wt_e, task_id, items_map, created, errors,
                   total_created, total_errors, total_skipped, response,
                   tasks_added, prev_clean,
                   prev_dry_created>>

\* the script is started again, with or without --dry-run
WTRerun ==
    /\ script = "wt"
    /\ wt_pc \in {"done", "exit0", "exit1"}
    /\ wt_run < MaxRuns
    /\ wt_run' = wt_run + 1
    /\ prev_clean' = (wt_pc = "done" /\ ~dry_run /\ total_errors = 0)
    /\ prev_dry_created' = IF wt_pc = "done" /\ dry_run THEN total_created ELSE -1
    /\ tasks_added' = 0
    /\ dry_run' \in BOOLEAN
    /\ wt_pc' = "start"
    /\ wt_status' = 0
    /\ wt_j' = 1
    /\ wt_e' = 1
    /\ task_id' = 0
    /\ items_map' = {}
    /\ created' = 0
    /\ errors' = 0
    /\ total_created' = 0
    /\ total_errors' = 0
    /\ total_skipped' = 0
    /\ response' = NoResponse
    /\ UNCHANGED <<script, mgvars, sdvars, faults, javars, clvars, wt_jobs, workflow_tasks, associations>>

WTNext ==
    WTFetch \/ WTNoResponse \/ WTJobStart \/ WTEntry \/ WTJobEnd \/ WTSummary \/ WTRerun

\* ====================================================== apply migration direct
\* the queries that verify the migration, in the order the script sends them
VerifyQueries == <<"tables", "pg_indexes", "pg_policies", "triggers">>

MGInit ==
    /\ migrated = FALSE
    /\ mg_pc = "connect"
    /\ conn = "unbound"
    /\ mg_txn = FALSE
    /\ mg_v = 1
    /\ mg_e = "none"

MGIdle ==
    /\ migrated = FALSE
    /\ mg_pc = "off"
    /\ conn = "unbound"
    /\ mg_txn = FALSE
    /\ mg_v = 1
    /\ mg_e = "none"

\* conn = psycopg2.connect(...); autocommit off; cursor: when connect raises,
\* the assignment to conn never happens
MGConnect ==
    /\ script = "mig"
    /\ mg_pc = "connect"
    /\ \/ /\ conn' = "open"
          /\ mg_pc' = "execute"
          /\ UNCHANGED <<faults, mg_e>>
       \/ /\ Failing(1)
          /\ mg_pc' = "except"
          /\ mg_e' = "connect"
          /\ UNCHANGED conn
    /\ UNCHANGED <<script, javars, clvars, wtvars, sdvars, migrated, mg_txn, mg_v>>

\* cursor.execute(migration_sql)
MGExecute ==
    /\ script = "mig"
    /\ mg_pc = "execute"
    /\ \/ /\ mg_txn' = TRUE
          /\ mg_pc' = "commit"
          /\ UNCHANGED <<faults, mg_e>>
       \/ /\ Failing(1)
          /\ mg_pc' = "except"
          /\ mg_e' = "execute"
          /\ UNCHANGED mg_txn
    /\ UNCHANGED <<script, javars, clvars, wtvars, sdvars, migrated, conn, mg_v>>

\* conn.commit()
MGCommit ==
    /\ script = "mig"
    /\ mg_pc = "commit"
    /\ \/ /\ migrated' = (migrated \/ mg_txn)
          /\ mg_txn' = FALSE
          /\ mg_pc' = "verify"
          /\ UNCHANGED <<faults, mg_e>>
       \/ /\ Failing(1)
          /\ mg_pc' = "except"
          /\ mg_e' = "commit"
          /\ UNCHANGED <<migrated, mg_txn>>
    /\ UNCHANGED <<script, javars, clvars, wtvars, sdvars, conn, mg_v>>

\* one of the verification queries: they run after the commit, inside the same try
MGVerify ==
    /\ script = "mig"
    /\ mg_pc = "verify"
    /\ \/ /\ mg_v' = mg_v + 1
          /\ mg_pc' = IF mg_v = Len(VerifyQueries) THEN "close" ELSE "verify"
          /\ UNCHANGED <<faults, mg_e>>
       \/ /\ Failing(1)
          /\ mg_pc' = "except"
          /\ mg_e' = "verify"
          /\ UNCHANGED mg_v
    /\ UNCHANGED <<script, javars, clvars, wtvars, sdvars, migrated, conn, mg_txn>>

\* cursor.close(); conn.close(); the banner; the script ends with status 0
MGClose ==
    /\ script = "mig"
    /\ mg_pc = "close"
    /\ conn' = "closed"
    /\ mg_pc' = "exit0"
    /\ UNCHANGED <<script, faults, javars, clvars, wtvars, sdvars, migrated, mg_txn, mg_v, mg_e>>

\* except psycopg2.Error: `if conn:` reads a name that was never bound when
\* connect raised, which raises NameError inside the handler: the interpreter
\* prints the traceback and ends with status 1. Otherwise rollback and sys.exit(1)
MGExcept ==
    /\ script = "mig"
    /\ mg_pc = "except"
    /\ IF conn = "unbound"
       THEN /\ mg_pc' = "traceback"
            /\ UNCHANGED mg_txn
       ELSE /\ mg_txn' = FALSE
            /\ mg_pc' = "exit1"
    /\ UNCHANGED <<script, faults, javars, clvars, wtvars, sdvars, migrated, conn, mg_v, mg_e>>

MGNext == MGConnect \/ MGExecute \/ MGCommit \/ MGVerify \/ MGClose \/ MGExcept

\* =================================================================== seed demo
\* the id the script gives the customer it creates
DemoCustomer == "demo-customer-py"

\* a customer of the demo tenant that was there before the script ran
OtherCustomer == "customer-1"

SDInit ==
    /\ customers_table \in {{}, {OtherCustomer}}
    /\ jobs_table = 0
    /\ sd_pc = "lookup"
    /\ sd_run = 1
    /\ customers = <<>>
    /\ customer_id = "unbound"
    /\ job_posts = 0
    /\ sd_created = 0

SDIdle ==
    /\ customers_table = {}
    /\ jobs_table = 0
    /\ sd_pc = "off"
    /\ sd_run = 0
    /\ customers = <<>>
    /\ customer_id = "unbound"
    /\ job_posts = 0
    /\ sd_created = 0

\* the bodies the GET of customers with limit 1 can return
CustomerPages == IF customers_table = {} THEN {<<>>}
                 ELSE {<<c>> : c \in customers_table}

\* every lookup taken for "the tenant has no customer"
FoundCustomer_Never(page) == FALSE

\* `if customers:`
FoundCustomer(page) == page # <<>>

\* the GET of customers and the branch on its answer
SDLookup ==
    /\ script = "seed"
    /\ sd_pc = "lookup"
    /\ \E status \in GetStatuses, page \in CustomerPages :
        /\ Failing(Cost(status))
        /\ IF status = StatusOk
           THEN /\ customers' = page
                /\ IF FoundCustomer(page)
                   THEN /\ customer_id' = page[1]
                        /\ sd_pc' = "job"
                   ELSE /\ sd_pc' = "create"
                        /\ UNCHANGED customer_id
           ELSE /\ sd_pc' = "exit1"
                /\ UNCHANGED <<customers, customer_id>>
    /\ UNCHANGED <<script, javars, clvars, wtvars, mgvars, customers_table, jobs_table,
                   sd_run, job_posts, sd_created>>

\* the POST of the demo customer
SDCreate ==
    /\ script = "seed"
    /\ sd_pc = "create"
    /\ \E status \in PostStatuses :
        /\ Failing(Cost(status))
        /\ IF InsertOk(status)
           THEN /\ customers_table' = customers_table \cup {DemoCustomer}
                /\ sd_created' = sd_created + 1
                /\ customer_id' = DemoCustomer
                /\ sd_pc' = "job"
           ELSE /\ sd_pc' = "exit1"
                /\ UNCHANGED <<customers_table, sd_created, customer_id>>
    /\ UNCHANGED <<script, javars, clvars, wtvars, mgvars, jobs_table, sd_run, customers,
                   job_posts>>

\* the POST of the demo job: its failure is printed and the script goes on
SDJob ==
    /\ script = "seed"
    /\ sd_pc = "job"
    /\ \E status \in PostStatuses :
        /\ Failing(Cost(status))
        /\ jobs_table' = IF InsertOk(status) THEN jobs_table + 1 ELSE jobs_table
    /\ job_posts' = job_posts + 1
    /\ sd_pc' = "list"
    /\ UNCHANGED <<script, javars, clvars, wtvars, mgvars, customers_table, sd_run,
                   customers, customer_id, sd_created>>

\* the GET that lists the jobs: either answer is printed, then the script ends
SDList ==
    /\ script = "seed"
    /\ sd_pc = "list"
    /\ \E status \in GetStatuses : Failing(Cost(status))
    /\ sd_pc' = "done"
    /\ UNCHANGED <<script, javars, clvars, wtvars, mgvars, customers_table, jobs_table,
                   sd_run, customers, customer_id, job_posts, sd_created>>

\* the operator starts the script again
SDRerun ==
    /\ script = "seed"
    /\ sd_pc \in {"done", "exit1"}
    /\ sd_run < MaxRuns
    /\ sd_run' = sd_run + 1
    /\ sd_pc' = "lookup"
    /\ customers' = <<>>
    /\ customer_id' = "unbound"
    /\ job_posts' = 0
    /\ UNCHANGED <<script, faults, javars, clvars, wtvars, mgvars, customers_table,
                   jobs_table, sd_created>>

SDNext == SDLookup \/ SDCreate \/ SDJob \/ SDList \/ SDRerun

\* ================================================================== system
Init ==
    /\ script \in {"ja", "cl", "wt", "mig", "seed"}
    /\ faults = 0
    /\ IF script = "ja" THEN JAInit ELSE JAIdle
    /\ IF script = "cl" THEN CLInit ELSE CLIdle
    /\ IF script = "wt" THEN WTInit ELSE WTIdle
    /\ IF script = "mig" THEN MGInit ELSE MGIdle
    /\ IF script = "seed" THEN SDInit ELSE SDIdle

Next == JANext \/ CLNext \/ WTNext \/ MGNext \/ SDNext

Spec == Init /\ [][Next]_vars

\* a script that can take a step takes one: the interpreter runs each started
\* script on, it does not pause on its own
FairSpec == Spec /\ WF_vars(Next)
\* ================================================================== claims

\* every job whose tenant exists has a row with its natural key in `table`
Converged(table) ==
    \A k \in 1..Len(jobs) :
        TenantExists(jobs[k]) => KeyCount(table, NaturalKey(AssignmentRow(jobs[k]))) > 0

\* the jobs an invocation reported as created
CreatedBy(r) == {log[r][n].job : n \in {m \in 1..Len(log[r]) : log[r][m].outcome = "created"}}

\* C1 as stated: an invocation of the job-assignments backfill that runs right
\* after another one committed, with jobs and tenants unchanged, inserts 0
\* assignments and leaves job_assignments as the first one left it.
C1_SecondRunInsertsNothing ==
    \A r \in RunIds :
        (script = "ja" /\ pc[r] = "done" /\ afterCommitted[r])
            => /\ inserted_count[r] = 0
               /\ job_assignments = tableAtStart[r]

\* C1 amended: an invocation of the job-assignments backfill that runs right
\* after another one committed and finds job_assignments converged (a row for
\* every job whose tenant exists) inserts 0 assignments and leaves the table
\* as it found it.
C1_ConvergedRunInsertsNothing ==
    \A r \in RunIds :
        (script = "ja" /\ pc[r] = "done" /\ afterCommitted[r] /\ Converged(tableAtStart[r]))
            => /\ inserted_count[r] = 0
               /\ job_assignments = tableAtStart[r]

C1_Witness ==
    \E r \in RunIds :
        /\ script = "ja" /\ pc[r] = "done" /\ afterCommitted[r]
        /\ Converged(tableAtStart[r])
        /\ tableAtStart[r] # EmptyBag
        /\ \E n \in 1..Len(log[r]) : log[r][n].outcome = "skip_exists"

\* C2: with the uniqueness constraint on (tenant_id, job_id, user_id) in place,
\* concurrent invocations never leave two rows with the same natural key, at
\* most one invocation counts a key as created, and an invocation that hits
\* the conflict treats it as a no-op rather than reporting a failure.
C2_ConflictIsNoOp ==
    (script = "ja" /\ unique_ja) =>
        /\ \A k \in 1..Len(jobs) :
              KeyCount(job_assignments, NaturalKey(AssignmentRow(jobs[k]))) <= 1
        /\ \A k \in 1..Len(jobs) :
              Cardinality({r \in RunIds : jobs[k].id \in CreatedBy(r)}) <= 1
        /\ \A r \in RunIds : \A n \in 1..Len(log[r]) :
              ~(log[r][n].outcome = "failed" /\ log[r][n].error = "unique_violation")

\* C3: once an invocation of the job-assignments backfill has finished, every
\* job it counted as inserted has its row in job_assignments, also when the
\* insert of a later job failed.
C3_InsertedRowsSurviveFailure ==
    \A r \in RunIds :
        (script = "ja" /\ pc[r] = "done") =>
            \A n \in 1..Len(log[r]) :
                log[r][n].outcome = "created"
                    => KeyCount(job_assignments, NaturalKey(AssignmentRow(jobs[n]))) > 0

C4_RejectedWriteContinues ==
    [][/\ \A r \in RunIds :
            (/\ Len(log'[r]) = Len(log[r]) + 1
             /\ log'[r][Len(log'[r])].outcome = "failed")
                => /\ idx'[r] = idx[r] + 1
                   /\ pc'[r] = IF idx'[r] <= Len(jobs) THEN "probe" ELSE "commit"
       /\ (/\ Len(cl_log') = Len(cl_log) + 1
           /\ cl_log'[Len(cl_log')] = "error")
                => /\ cl_pos' = cl_pos + 1
                   /\ cl_pc' = "loop"
       /\ (/\ wt_pc = "entry"
           /\ wt_e' = wt_e + 1
           /\ response' = RejectedResponse)
                => /\ wt_pc' = "entry"
                   /\ wt_j' = wt_j
                   /\ errors' = errors + 1
      ]_vars

C4_Witness ==
    \E r \in RunIds : \E n \in 1..Len(log[r]) :
        /\ script = "ja" /\ pc[r] = "done"
        /\ n < Len(log[r])
        /\ log[r][n].outcome = "failed"
        /\ log[r][n].error = "rejected"
        /\ log[r][n + 1].outcome = "created"
        /\ KeyCount(job_assignments, NaturalKey(AssignmentRow(jobs[n + 1]))) > 0

\* the rows of job_checklist_items with the natural key (job_id, item)
ChecklistRows(item) ==
    LET rows == {row \in BagToSet(job_checklist_items) :
                    row.job_id = job_id /\ row.item_id = item}
        RECURSIVE Sum(_)
        Sum(S) == IF S = {} THEN 0
                  ELSE LET x == CHOOSE y \in S : TRUE
                       IN CopiesIn(x, job_checklist_items) + Sum(S \ {x})
    IN Sum(rows)

\* C6: after any number of runs of the checklist backfill in which the store
\* rejected nothing, job_checklist_items holds exactly one row for each
\* (job_id, item_id) of the check_out transactions.
C6_OneRowPerItem ==
    (script = "cl" /\ cl_pc = "done" /\ faults = 0) =>
        \A k \in 1..Len(transactions) : ChecklistRows(transactions[k].item_id) = 1

\* C7: a non-dry run of the workflow-task-items backfill that follows a
\* non-dry run which ended with no error reports 0 associations created and
\* adds no row to workflow_task_item_associations or workflow_tasks.
C7_SecondRunCreatesNothing ==
    (script = "wt" /\ wt_pc = "done" /\ ~dry_run /\ prev_clean) =>
        /\ total_created = 0
        /\ tasks_added = 0

\* C8: a run of the workflow-task-items backfill ends with a failure only
\* when the fetch of the jobs failed.
C8_OnlyFetchFailureIsFatal ==
    (script = "wt" /\ wt_pc = "exit1") => wt_status # StatusOk

\* C9: when the POST of an association is answered with a uniqueness
\* violation, neither created nor errors changes, nothing is written, and the
\* loop goes on with the next checklist entry.
C9_ConflictIsNoOp ==
    [][(/\ script = "wt"
        /\ wt_pc = "entry"
        /\ wt_e' = wt_e + 1
        /\ response' = ConflictResponse)
            => /\ created' = created
               /\ errors' = errors
               /\ associations' = associations
               /\ wt_pc' = "entry"
               /\ wt_j' = wt_j
      ]_vars

C9_Witness ==
    /\ script = "wt" /\ wt_pc = "entry"
    /\ response = ConflictResponse
    /\ created = 0 /\ errors = 0
    /\ wt_e <= Len(FetchedJobs[wt_j].checklist_items)

\* C10: a run whose fetch of the source rows failed has ended with a failure
\* and has written nothing.
C10_FetchFailureWritesNothing ==
    /\ \A r \in RunIds :
          pc[r] = "raised" => /\ log[r] = <<>>
                              /\ txn[r] = EmptyBag
                              /\ inserted_count[r] = 0
    /\ cl_status \notin {0, StatusOk} => /\ cl_pc = "exit1"
                                         /\ cl_log = <<>>
    /\ wt_status \notin {0, StatusOk} => /\ wt_pc = "exit1"
                                         /\ total_created = 0
                                         /\ created = 0
                                         /\ tasks_added = 0

C10_Witness ==
    /\ script = "wt" /\ wt_pc = "exit1"
    /\ wt_status \notin {0, StatusOk}
    /\ ~dry_run
    /\ \E k \in 1..Len(wt_jobs) : wt_jobs[k].checklist_items # <<>>

\* C11: no step of a dry run of the workflow-task-items backfill changes
\* workflow_tasks or workflow_task_item_associations: both hold the same rows
\* after the run as before it.
C11_DryRunWritesNothing ==
    [][(script = "wt" /\ dry_run)
            => /\ workflow_tasks' = workflow_tasks
               /\ associations' = associations
               /\ tasks_added' = 0
      ]_vars

C11_Witness ==
    /\ script = "wt" /\ wt_pc = "done"
    /\ dry_run
    /\ wt_run = 1
    /\ total_created > 0
    /\ associations = EmptyBag
    /\ workflow_tasks \in {{}, {EarlierTask}}

\* C12: a real run started from the state a completed dry run left, with no
\* request of either run failing, reports the same 'Associations created'
\* total as the dry run did.
C12_DryRunReportsRealTotal ==
    (/\ script = "wt" /\ wt_pc = "done"
     /\ ~dry_run
     /\ prev_dry_created >= 0
     /\ faults = 0)
        => total_created = prev_dry_created

\* the quantities (in halves) of the transactions of txs for item, added up
RECURSIVE SumQuantities(_, _)
SumQuantities(txs, item) ==
    IF txs = <<>> THEN 0
    ELSE (IF Head(txs).item_id = item THEN Head(txs).quantity ELSE 0)
            + SumQuantities(Tail(txs), item)

\* C13: after a first run in which no request failed, every item of
\* the check_out transactions has exactly one checklist item and its quantity
\* equals the sum of the quantities of the item's transactions.
C13_QuantityIsSum ==
    (script = "cl" /\ cl_run = 1 /\ cl_pc = "done" /\ faults = 0) =>
        /\ \A k \in 1..Len(transactions) : ChecklistRows(transactions[k].item_id) = 1
        /\ \A row \in BagToSet(job_checklist_items) :
                2 * row.quantity = SumQuantities(transactions, row.item_id)

\* C14: when an invocation of the job-assignments backfill reaches its commit
\* and summary, the 'Assignments inserted' count it is about to print equals
\* the number of rows its commit adds to job_assignments.
C14_InsertedCountIsRowsAdded ==
    \A r \in RunIds :
        (script = "ja" /\ pc[r] = "commit") =>
            inserted_count[r] = BagCardinality(txn[r])

\* the jobs whose tenant_id has no row in tenants (the k of C15)
InvalidTenantJobs == {i \in 1..Len(jobs) : jobs[i].tenant_id \notin tenants}

\* job_assignments as a first run without failure leaves it: one row for each
\* job whose tenant exists
FirstRunRows ==
    SetToBag({AssignmentRow(jobs[i]) : i \in (1..Len(jobs)) \ InvalidTenantJobs})

NoFailure(r) == \A m \in 1..Len(log[r]) : log[r][m].outcome # "failed"

\* C15: with n jobs of which k have no tenant, an invocation of the
\* job-assignments backfill that ran alone on an empty job_assignments with no
\* insert failing ends with inserted = n - k and skipped = k; an invocation
\* that starts right after, on the rows that first run left, ends with
\* inserted = 0, skipped = n and no failure.
C15_SummaryCounts ==
    \A r \in RunIds :
        (script = "ja" /\ pc[r] = "done") =>
            /\ (/\ \A q \in RunIds \ {r} : pc[q] = "init"
                /\ tableAtStart[r] = EmptyBag
                /\ NoFailure(r))
                  => /\ inserted_count[r] = Len(jobs) - Cardinality(InvalidTenantJobs)
                     /\ skipped_count[r] = Cardinality(InvalidTenantJobs)
                     /\ job_assignments = FirstRunRows
            /\ (afterCommitted[r] /\ tableAtStart[r] = FirstRunRows)
                  => /\ inserted_count[r] = 0
                     /\ skipped_count[r] = Len(jobs)
                     /\ NoFailure(r)

C15_Witness ==
    \E r \in RunIds : \E q \in RunIds \ {r} :
        /\ script = "ja" /\ pc[r] = "done" /\ pc[q] = "done"
        /\ Len(jobs) = 2 /\ Cardinality(InvalidTenantJobs) = 1
        /\ tableAtStart[q] = EmptyBag
        /\ inserted_count[q] = 1 /\ skipped_count[q] = 1
        /\ afterCommitted[r] /\ tableAtStart[r] = FirstRunRows
        /\ inserted_count[r] = 0 /\ skipped_count[r] = 2

\* C16: when an invocation of the job-assignments backfill is stopped between
\* two jobs, with no insert having failed before, every job it had reported as
\* created has its row in job_assignments.
C16_StoppedRunKeepsProgress ==
    \A r \in RunIds :
        (script = "ja" /\ pc[r] = "stopped" /\ NoFailure(r)) =>
            \A n \in 1..Len(log[r]) :
                log[r][n].outcome = "created"
                    => KeyCount(job_assignments, NaturalKey(AssignmentRow(jobs[n]))) > 0

C18_MissingItemIsSkipNotError ==
    [][(/\ script = "wt"
        /\ wt_pc = "entry"
        /\ faults = 0
        /\ wt_e' = wt_e + 1
        /\ Get(FetchedJobs[wt_j].checklist_items[wt_e], "id", "")
                \notin ItemsTable \cup {""})
            => /\ associations' = associations
               /\ created' = created
               /\ errors' = errors
      ]_vars

\* C19: every row a backfill script has written carries a tenant_id, equal to
\* the tenant_id of the job it was derived from (for a checklist item: the
\* tenant of the job the script is run for).
C19_TargetsCarrySourceTenant ==
    /\ \A r \in RunIds : \A row \in BagToSet(job_assignments (+) txn[r]) :
          \E k \in 1..Len(jobs) :
              /\ jobs[k].id = row.job_id
              /\ jobs[k].tenant_id = row.tenant_id
    /\ \A row \in BagToSet(associations) :
          \E t \in workflow_tasks : \E k \in 1..Len(wt_jobs) :
              /\ t.id = row.workflow_task_id
              /\ wt_jobs[k].id = t.job_id
              /\ wt_jobs[k].tenant_id = row.tenant_id
    /\ \A row \in BagToSet(job_checklist_items) :
          /\ "tenant_id" \in DOMAIN row
          /\ row.tenant_id = tenant_id

\* C20: no step of any backfill script changes jobs, tenants, the check_out
\* transactions or the jobs' checklists, and no step removes or alters a row
\* of job_assignments, job_checklist_items, workflow_tasks or
\* workflow_task_item_associations: each of these only gains rows.
C20_SourcesKeptTargetsGrow ==
    [][/\ jobs' = jobs
       /\ tenants' = tenants
       /\ transactions' = transactions
       /\ wt_jobs' = wt_jobs
       /\ job_assignments \sqsubseteq job_assignments'
       /\ job_checklist_items \sqsubseteq job_checklist_items'
       /\ associations \sqsubseteq associations'
       /\ workflow_tasks \subseteq workflow_tasks'
      ]_vars

C20_Witness ==
    \E r \in RunIds :
        /\ script = "ja" /\ pc[r] = "done"
        /\ tableAtStart[r] # EmptyBag
        /\ inserted_count[r] > 0
        /\ tableAtStart[r] \sqsubseteq job_assignments
        /\ BagCardinality(job_assignments) > BagCardinality(tableAtStart[r])

\* C21: no run of the checklist-from-transactions backfill ends with an
\* exception raised while its transactions are mapped to checklist items, also
\* when a transaction's embedded item is null.
C21_DerivationNeverRaises ==
    (script = "cl" /\ \E k \in 1..Len(transactions) : transactions[k].items = None)
        => cl_pc # "raised"

\* C22: every run of the workflow-task-items backfill that has started ends,
\* with its summary or with an exit, also when the store stops answering one of
\* its calls.
C22_RunTerminates ==
    (script = "wt" /\ wt_pc = "start") ~> (wt_pc \in {"done", "exit0", "exit1"})

\* the associations of a job: those of the job's workflow tasks
JobAssociations(job) ==
    {a \in BagToSet(associations) :
        \E t \in workflow_tasks : t.id = a.workflow_task_id /\ t.job_id = job.id}

\* C23: the job main is about to pass to backfill_job has no
\* workflow_task_item_associations.
C23_OnlyJobsWithoutAssociations ==
    (script = "wt" /\ wt_pc = "job" /\ wt_j <= Len(FetchedJobs))
        => JobAssociations(FetchedJobs[wt_j]) = {}

\* C24: after any sequence of runs of the workflow-task-items backfill each job
\* has at most one auto-created 'Job Load Verification' task.
C24_AtMostOneDefaultTask ==
    script = "wt" =>
        \A k \in 1..Len(wt_jobs) :
            Cardinality({t \in workflow_tasks : t.job_id = wt_jobs[k].id /\ t.auto}) <= 1

\* the checklist entries an association of the table was created from: those
\* with its item id, in the checklist of the job of its task
EntriesOf(a) ==
    {e \in UNION {{wt_jobs[k].checklist_items[n] : n \in 1..Len(wt_jobs[k].checklist_items)} :
                    k \in {j \in 1..Len(wt_jobs) :
                              \E t \in workflow_tasks :
                                  t.id = a.workflow_task_id /\ t.job_id = wt_jobs[j].id}} :
        Get(e, "id", "") = a.item_id}

Outcomes(r, kinds) == {n \in 1..Len(log[r]) : log[r][n].outcome \in kinds}

\* C26: in the job-assignments backfill every job processed has exactly one
\* outcome, inserted, skipped or failed; inserted_count counts the inserted
\* ones, skipped_count the skipped ones and neither the failed ones, so
\* inserted_count + skipped_count <= total_jobs at all times, and once the loop
\* is through the two are equal exactly when no job failed.
C26_OutcomeAccounting ==
    \A r \in RunIds :
        script = "ja" =>
            /\ Len(log[r]) <= Len(jobs)
            /\ \A n \in 1..Len(log[r]) :
                  /\ log[r][n].job = jobs[n].id
                  /\ log[r][n].outcome \in {"created", "skip_exists", "skip_tenant", "failed"}
            /\ inserted_count[r] = Cardinality(Outcomes(r, {"created"}))
            /\ skipped_count[r] = Cardinality(Outcomes(r, {"skip_exists", "skip_tenant"}))
            /\ inserted_count[r] + skipped_count[r] <= Len(jobs)
            /\ pc[r] \in {"commit", "done"} =>
                  /\ Len(log[r]) = Len(jobs)
                  /\ (inserted_count[r] + skipped_count[r] = Len(jobs))
                        <=> (Outcomes(r, {"failed"}) = {})

C26_Witness ==
    \E r \in RunIds :
        /\ script = "ja" /\ pc[r] = "done"
        /\ Len(jobs) = 2
        /\ log[r][1].outcome = "failed"
        /\ log[r][2].outcome = "created"
        /\ inserted_count[r] = 1 /\ skipped_count[r] = 0

\* the rank of item among the distinct item ids of the transactions, in order
\* of first appearance
FirstAppearanceRank(item) ==
    LET first == CHOOSE j \in 1..Len(transactions) :
                    /\ transactions[j].item_id = item
                    /\ \A i \in 1..(j - 1) : transactions[i].item_id # item
    IN Cardinality({transactions[i].item_id : i \in 1..first})

\* C27: within a run of the checklist-from-transactions backfill the item
\* POSTed in the p-th iteration is the p-th distinct item id of the
\* transactions and carries sequence_number p, whether or not earlier POSTs
\* were rejected; no two items share a number.
C27_SequenceNumbers ==
    (script = "cl" /\ cl_pc \in {"loop", "done"}) =>
        /\ sequence = cl_pos
        /\ sequence = Len(cl_log) + 1
        /\ \A p \in 1..Len(items_to_add) :
              FirstAppearanceRank(items_to_add[p].item_id) = p
        /\ \A p \in 1..Len(cl_log) :
              cl_log[p] = "created" =>
                  \E row \in BagToSet(job_checklist_items) :
                      /\ row.item_id = items_to_add[p].item_id
                      /\ row.sequence_number = p
        /\ \A row \in BagToSet(job_checklist_items) :
              row.sequence_number = FirstAppearanceRank(row.item_id)
        /\ \A row1, row2 \in BagToSet(job_checklist_items) :
              row1.sequence_number = row2.sequence_number => row1.item_id = row2.item_id

C27_Witness ==
    /\ script = "cl" /\ cl_pc = "done" /\ cl_run = 1
    /\ cl_log = <<"error", "created">>
    /\ \E row \in BagToSet(job_checklist_items) :
          /\ row.sequence_number = 2
          /\ row.item_id = transactions[2].item_id
          /\ row.item_id # transactions[1].item_id

\* the ids of the entries of a checklist, "" for an entry without one
EntryIds(checklist_items) ==
    [n \in 1..Len(checklist_items) |-> Get(checklist_items[n], "id", "")]

\* backfill_job is in its loop with an empty items_map although the checklist
\* names an item of the items table: fetch_items_by_ids has failed
ItemsFetchFailed ==
    /\ script = "wt" /\ wt_pc = "entry"
    /\ items_map = {}
    /\ \E n \in 1..Len(FetchedJobs[wt_j].checklist_items) :
          EntryIds(FetchedJobs[wt_j].checklist_items)[n] \in ItemsTable

\* C28: after fetch_items_by_ids failed for a job, every iteration over one of
\* the job's checklist entries writes no association and adds 1 to errors if
\* the entry has an id; the job ends with created = 0, its errors are added to
\* the total and main goes on with the next job.
C28_ItemsFetchFailure ==
    [][ItemsFetchFailed =>
          LET ids == EntryIds(FetchedJobs[wt_j].checklist_items)
          IN /\ associations' = associations
             /\ workflow_tasks' = workflow_tasks
             /\ created = 0
             /\ errors = Cardinality({n \in 1..(wt_e - 1) : ids[n] # ""})
             /\ wt_e <= Len(ids) =>
                   /\ wt_pc' = "entry" /\ wt_j' = wt_j /\ wt_e' = wt_e + 1
                   /\ created' = 0
                   /\ errors' = errors + (IF ids[wt_e] # "" THEN 1 ELSE 0)
             /\ wt_e > Len(ids) =>
                   /\ wt_pc' = "job" /\ wt_j' = wt_j + 1
                   /\ total_created' = total_created
                   /\ total_errors' = total_errors + Cardinality({n \in 1..Len(ids) : ids[n] # ""})
      ]_vars

C28_Witness ==
    /\ script = "wt" /\ wt_pc = "job"
    /\ wt_j = 2 /\ Len(FetchedJobs) = 2
    /\ FetchedJobs[1].checklist_items = <<EntryNoId, EntryGone, EntryPending>>
    /\ total_errors = 2 /\ total_created = 0
    /\ associations = EmptyBag
    /\ tasks_added = 1

\* C29: apply_migration_direct is all-or-nothing: once a call of the script has
\* raised a database error, while connecting or while executing, the
\* migration is not committed
C29_AllOrNothing ==
    (script = "mig" /\ mg_e # "none") => ~migrated

\* C30: seed-demo finds or creates the demo customer: the script has created
\* a customer only if the demo tenant had none and never more than one; a run
\* that found a customer uses that customer's id; a run that ended at the
\* customer step has sent no POST of a job, and a run that got past the
\* customer step sends exactly one
C30_FindOrCreate ==
    script = "seed" =>
        /\ sd_pc = "create" => customers_table = {}
        /\ OtherCustomer \in customers_table => sd_created = 0
        /\ sd_created <= 1
        /\ (sd_pc \in {"job", "list", "done"} /\ customers # <<>>) =>
               /\ customer_id = customers[1]
               /\ customer_id \in customers_table
        /\ (sd_pc \in {"job", "list", "done"} /\ customers = <<>>) =>
               customer_id = DemoCustomer
        /\ sd_pc \in {"lookup", "create", "exit1", "job"} => job_posts = 0
        /\ sd_pc \in {"list", "done"} => job_posts = 1

\* a second run has reused the customer the first run created, and both runs
\* created a job
C30_Witness ==
    /\ script = "seed"
    /\ sd_run = 2
    /\ sd_pc = "done"
    /\ sd_created = 1
    /\ customers = <<DemoCustomer>>
    /\ customer_id = DemoCustomer
    /\ job_posts = 1
    /\ jobs_table = 2

====
